---- MODULE Spec2Model ----
(***************************************************************************)
(* Model of OpenChamp/MMServer's websocket layer:                          *)
(*   - ClientManager.run, the hub goroutine owning the client registry;    *)
(*   - handleWebSocketConnection / Client.readPump / Client.writePump;     *)
(*   - handlePacket and the authentication handlers with the SQL           *)
(*     statements they issue against the users / auth_tokens tables.       *)
(* Each goroutine is a process with a program counter; an action is one    *)
(* step between two suspension points (channel operation, mutex            *)
(* operation, database call, socket read or write).                        *)
(***************************************************************************)
EXTENDS Naturals, Integers, Sequences, FiniteSets, TLC

----------------------------------------------------------------------------
(* Bounds of the model *)

\* capacity of Client.send in the model (the program uses 256, websocket.go:182)
QueueCap == 1
\* frames the peers send, all connections together
MaxFrames == 2
\* calls of BroadcastMessage
MaxBroadcasts == 2
\* the clock runs from 0 to MaxTime (days)
MaxTime == 8
\* capacity of Client.send of the connection Traced (256 in the program too)
TracedCap == 2

\* INTERVAL '7 days' of the auth_tokens insert
TokenTTLDays == 7
\* minimum lengths checked by handleRegistration
MinUsernameLen == 3
MinPasswordLen == 6

\* the connections accepted during a run, and the remote address of each
Clients == {"c1", "c2"}
\* one more connection, the one whose queue and transport are recorded in
\* queued and wire; its channel has room for TracedCap messages
Traced == "c3"
Sessions == Clients \cup {Traced}
ClientIP(c) == IF c = "c1" THEN "10.0.0.1" ELSE "10.0.0.2"

\* the payload handed to BroadcastMessage
Payload == "news"

\* goroutines calling GetConnectedClientsCount
Readers == {"r1"}

----------------------------------------------------------------------------
(* Strings are sequences of characters, so that len() is Len *)

Ab       == <<"a", "b">>
Alice    == <<"a", "l", "i", "c", "e">>
Bob      == <<"b", "o", "b">>
ShortPw  == <<"p", "w">>
SecretPw == <<"s", "e", "c", "r", "e", "t", "p", "w">>
Empty    == <<>>
GoodMail == <<"a", "@", "b", ".", "i", "o">>
BadMail  == <<"a", "@", "b">>

Usernames == {Ab, Alice, Bob}
Passwords == {ShortPw, SecretPw}
Emails    == {Empty, GoodMail, BadMail}

Lower  == {"a", "b", "c", "d", "e", "f", "g", "h", "i", "j", "k", "l", "m",
           "n", "o", "p", "q", "r", "s", "t", "u", "v", "w", "x", "y", "z"}
Upper  == {"A", "B", "C", "D", "E", "F", "G", "H", "I", "J", "K", "L", "M",
           "N", "O", "P", "Q", "R", "S", "T", "U", "V", "W", "X", "Y", "Z"}
Digits == {"0", "1", "2", "3", "4", "5", "6", "7", "8", "9"}
\* [A-z0-9._%+-]: the range A-z also covers the six characters between Z and a
LocalChars  == Upper \cup Lower \cup Digits \cup
               {"[", "backslash", "]", "^", "_", "backquote", ".", "%", "+", "-"}
\* [a-z0-9.-]
DomainChars == Lower \cup Digits \cup {".", "-"}

\* ^[A-z0-9._%+-]+@[a-z0-9.-]+\.[a-z]{2,}$
IsValidEmail(email) ==
    \E at \in 1..Len(email), dot \in 1..Len(email) :
        /\ email[at] = "@"
        /\ at > 1
        /\ \A i \in 1..(at - 1) : email[i] \in LocalChars
        /\ dot > at + 1
        /\ \A i \in (at + 1)..(dot - 1) : email[i] \in DomainChars
        /\ email[dot] = "."
        /\ Len(email) - dot >= 2
        /\ \A i \in (dot + 1)..Len(email) : email[i] \in Lower

----------------------------------------------------------------------------
(* Tokens: uuid.New().String() yields a fresh value on every call *)

NoToken == <<>>
Uuid(n) == <<"uuid", n>>

----------------------------------------------------------------------------
(* Inbound frames.  A frame is described by what the decoders make of it:  *)
(*   json      - "ok" when json.Unmarshal into Message succeeds            *)
(*   type      - Message.Type after that call: "" when it decoded nothing, *)
(*               and the value of the "type" key when it decoded that key  *)
(*               and then reported an UnmarshalTypeError for another one   *)
(*   payloadOk - whether Message.Payload decodes into the handler's struct *)
(* and by the fields the payload carries.                                  *)

Frame(j, t, ok, u, p, e, tok) ==
    [json |-> j, type |-> t, payloadOk |-> ok,
     username |-> u, password |-> p, email |-> e, token |-> tok]

NoFrame       == Frame("none", "", FALSE, Empty, Empty, Empty, NoToken)
BadJsonFrame  == Frame("bad", "", FALSE, Empty, Empty, Empty, NoToken)
\* e.g. {"type":"register","type":1}: json.Unmarshal stores "register", skips
\* the number and returns an UnmarshalTypeError; Payload stays empty
TypeErrorFrame == Frame("bad", "register", FALSE, Empty, Empty, Empty, NoToken)
OtherFrame    == Frame("ok", "ping", TRUE, Empty, Empty, Empty, NoToken)
LoginFrame(u, p)       == Frame("ok", "login", TRUE, u, p, Empty, NoToken)
BadLoginFrame          == Frame("ok", "login", FALSE, Empty, Empty, Empty, NoToken)
RegisterFrame(u, p, e) == Frame("ok", "register", TRUE, u, p, e, NoToken)
BadRegisterFrame       == Frame("ok", "register", FALSE, Empty, Empty, Empty, NoToken)
TokenAuthFrame(tok)    == Frame("ok", "token_auth", TRUE, Empty, Empty, Empty, tok)

(* Outbound messages *)

WelcomeMsg == [type |-> "welcome"]
BroadcastMsg(p) == [type |-> "broadcast", payload |-> p]
ErrorMsg(category, message) ==
    [type |-> "error", subtype |-> category, message |-> message]
AuthSuccessMsg(u, tok) == [type |-> "auth_success", username |-> u, token |-> tok]
\* a success message that always reports an automatic login
RegisterSuccessMsgLoggedIn(autoLogin, u, tok) ==
    [type |-> "register_success", success |-> TRUE, autoLogin |-> TRUE,
     username |-> u, token |-> tok]

RegisterSuccessMsg(autoLogin, u, tok) ==
    [type |-> "register_success", success |-> TRUE, autoLogin |-> autoLogin,
     username |-> IF autoLogin THEN u ELSE Empty,
     token |-> IF autoLogin THEN tok ELSE NoToken]
NoMsg == [type |-> "none"]
\* websocket.CloseMessage
CloseFrame == [type |-> "close"]

----------------------------------------------------------------------------
VARIABLES
    \* ClientManager
    clients,        \* keys of manager.clients
    mutexW,         \* manager.mutex is held exclusively
    mutexR,         \* number of holders of manager.mutex's read lock
    hubPc,          \* position of ClientManager.run
    hubClient,      \* its local variable client
    hubMsg,         \* its local variable message
    hubTodo,        \* clients the range loop of the broadcast has yet to visit
    disconnects,    \* per client, the disconnect line the hub has logged for it
    nBroadcasts,    \* calls of BroadcastMessage so far
    countPc,        \* position of each GetConnectedClientsCount caller
    \* Client
    send,           \* contents of the channel Client.send
    sendClosed,     \* close(client.send) was called
    authenticated, username, authToken,
    \* readPump / handlePacket / handlers
    rp,             \* position of the connection's reading goroutine
    msg,            \* the frame being handled
    reply,          \* the response the handler is about to send
    err,            \* the err a handler got from its last database call
    regUserID,      \* handleRegistration's local variable userID
    regToken,       \* handleRegistration's local variable token
    nFrames,        \* frames read so far, by all connections
    \* writePump
    wp,
    \* database and clock
    users, tokens, userSeq, tokenSeq, uuidSeq, now,
    \* log lines of validateToken's warning
    warnings,
    \* the messages placed on the channel of the connection Traced, and what
    \* its writePump has passed to conn.WriteMessage, both in order
    queued, wire,
    \* "none", or the runtime panic that ended the process
    fault

hubVars   == <<clients, mutexW, mutexR, hubPc, hubClient, hubMsg, hubTodo, nBroadcasts>>
logVars   == <<disconnects, warnings>>
wireVars  == <<queued, wire>>
countVars == <<countPc>>
chanVars  == <<send, sendClosed>>
authVars  == <<authenticated, username, authToken>>
readVars  == <<rp, msg, reply, err, regUserID, regToken, nFrames>>
dbVars    == <<users, tokens, userSeq, tokenSeq, uuidSeq>>
vars == <<hubVars, logVars, wireVars, countVars, chanVars, authVars, readVars, wp, dbVars, now, fault>>

NoClient == "nobody"

Init ==
    /\ clients = {}
    /\ mutexW = FALSE
    /\ mutexR = 0
    /\ hubPc = "select"
    /\ hubClient = NoClient
    /\ hubMsg = NoMsg
    /\ hubTodo = {}
    /\ disconnects = [c \in Sessions |-> "none"]
    /\ nBroadcasts = 0
    /\ countPc = [r \in Readers |-> "idle"]
    /\ send = [c \in Sessions |-> <<>>]
    /\ sendClosed = [c \in Sessions |-> FALSE]
    /\ authenticated = [c \in Sessions |-> FALSE]
    /\ username = [c \in Sessions |-> Empty]
    /\ authToken = [c \in Sessions |-> NoToken]
    /\ rp = [c \in Sessions |-> "new"]
    /\ msg = [c \in Sessions |-> NoFrame]
    /\ reply = [c \in Sessions |-> NoMsg]
    /\ err = [c \in Sessions |-> FALSE]
    /\ regUserID = [c \in Sessions |-> 0]
    /\ regToken = [c \in Sessions |-> NoToken]
    /\ nFrames = 0
    /\ wp = [c \in Sessions |-> "new"]
    /\ users = {}
    /\ tokens = {}
    /\ userSeq = 0
    /\ tokenSeq = 0
    /\ uuidSeq = 0
    /\ now = 0
    /\ warnings = {}
    /\ queued = <<>>
    /\ wire = <<>>
    /\ fault = "none"

----------------------------------------------------------------------------
(* Channel operations on Client.send *)

\* cap(client.send)
Cap(c) == IF c = Traced THEN TracedCap ELSE QueueCap

Full(c) == Len(send[c]) >= Cap(c)

\* the message m is placed on c's channel
Enqueued(c, m) == queued' = IF c = Traced THEN Append(queued, m) ELSE queued

\* c's writePump passes m to conn.WriteMessage, which succeeds
Written(c, m) == wire' = IF c = Traced THEN Append(wire, m) ELSE wire

\* a receive that takes the newest message of the channel
RecvNewest(q) == [message |-> q[Len(q)], rest |-> SubSeq(q, 1, Len(q) - 1)]

\* message, ok := <-c.send on a channel that holds messages: the oldest one
Recv(q) == [message |-> Head(q), rest |-> Tail(q)]

----------------------------------------------------------------------------
(* handleWebSocketConnection together with the register case of            *)
(* ClientManager.run.  manager.register is unbuffered: the handler's send  *)
(* and the hub's receive are one step, after which the handler starts the  *)
(* two pumps.                                                              *)

Connect(c) ==
    /\ fault = "none"
    /\ rp[c] = "new"
    /\ hubPc = "select"
    /\ hubPc' = "regLock"
    /\ hubClient' = c
    /\ rp' = [rp EXCEPT ![c] = "read"]
    /\ wp' = [wp EXCEPT ![c] = "run"]
    /\ UNCHANGED <<clients, mutexW, mutexR, hubMsg, hubTodo, nBroadcasts,
                   countVars, chanVars, authVars, msg, reply, regUserID, err,
                   regToken, nFrames, logVars, wireVars, dbVars, now, fault>>

\* manager.mutex.Lock()
HubRegLock ==
    /\ fault = "none"
    /\ hubPc = "regLock"
    /\ ~mutexW /\ mutexR = 0
    /\ mutexW' = TRUE
    /\ hubPc' = "regAdd"
    /\ UNCHANGED <<clients, mutexR, hubClient, hubMsg, hubTodo, nBroadcasts,
                   countVars, chanVars, authVars, readVars, wp, logVars, wireVars, dbVars, now, fault>>

\* manager.clients[client] = true; manager.mutex.Unlock()
HubRegAdd ==
    /\ fault = "none"
    /\ hubPc = "regAdd"
    /\ clients' = clients \cup {hubClient}
    /\ mutexW' = FALSE
    /\ hubPc' = "welcome"
    /\ UNCHANGED <<mutexR, hubClient, hubMsg, hubTodo, nBroadcasts,
                   countVars, chanVars, authVars, readVars, wp, logVars, wireVars, dbVars, now, fault>>

\* client.send <- []byte(`Welcome to the Server!`): a blocking send, which
\* waits while the channel is full and panics when it is closed
HubWelcome ==
    /\ fault = "none"
    /\ hubPc = "welcome"
    /\ sendClosed[hubClient] \/ ~Full(hubClient)
    /\ IF sendClosed[hubClient]
       THEN /\ fault' = "send on closed channel"
            /\ UNCHANGED <<send, hubPc, hubClient, queued>>
       ELSE /\ send' = [send EXCEPT ![hubClient] = Append(@, WelcomeMsg)]
            /\ Enqueued(hubClient, WelcomeMsg)
            /\ hubPc' = "select"
            /\ hubClient' = NoClient
            /\ UNCHANGED fault
    /\ UNCHANGED <<clients, mutexW, mutexR, hubMsg, hubTodo, nBroadcasts,
                   countVars, sendClosed, authVars, readVars, wp, logVars, wire, dbVars, now>>

----------------------------------------------------------------------------
(* The unregister case.  The sender is readPump's deferred function, which *)
(* closes the connection once the hub has taken the request.               *)

\* a hub that closes the queue of whatever session the request names
UnregisterUnchecked(c) == TRUE

\* if _, ok := manager.clients[client]; ok
UnregisterPresent(c) == c \in clients

Unregister(c) ==
    /\ fault = "none"
    /\ rp[c] = "unregister"
    /\ hubPc = "select"
    /\ rp' = [rp EXCEPT ![c] = "done"]
    /\ IF UnregisterPresent(c)
       THEN hubPc' = "unregLock" /\ hubClient' = c
       ELSE UNCHANGED <<hubPc, hubClient>>
    /\ UNCHANGED <<clients, mutexW, mutexR, hubMsg, hubTodo, nBroadcasts,
                   countVars, chanVars, authVars, msg, reply, regUserID, err,
                   regToken, nFrames, wp, logVars, wireVars, dbVars, now, fault>>

\* manager.mutex.Lock()
HubUnregLock ==
    /\ fault = "none"
    /\ hubPc = "unregLock"
    /\ ~mutexW /\ mutexR = 0
    /\ mutexW' = TRUE
    /\ hubPc' = "unregDel"
    /\ UNCHANGED <<clients, mutexR, hubClient, hubMsg, hubTodo, nBroadcasts,
                   countVars, chanVars, authVars, readVars, wp, logVars, wireVars, dbVars, now, fault>>

\* delete(manager.clients, client); manager.mutex.Unlock(); close(client.send)
HubUnregDel ==
    /\ fault = "none"
    /\ hubPc = "unregDel"
    /\ clients' = clients \ {hubClient}
    /\ mutexW' = FALSE
    /\ IF sendClosed[hubClient]
       THEN fault' = "close of closed channel" /\ UNCHANGED sendClosed
       ELSE sendClosed' = [sendClosed EXCEPT ![hubClient] = TRUE] /\ UNCHANGED fault
    /\ disconnects' = [disconnects EXCEPT ![hubClient] = "Client disconnected"]
    /\ hubPc' = "select"
    /\ hubClient' = NoClient
    /\ UNCHANGED <<mutexR, hubMsg, hubTodo, nBroadcasts, warnings, wireVars, countVars, send,
                   authVars, readVars, wp, dbVars, now>>

----------------------------------------------------------------------------
(* BroadcastMessage and the broadcast case.  manager.broadcast is          *)
(* unbuffered, so the caller's send and the hub's receive are one step.    *)

BroadcastMessage ==
    /\ fault = "none"
    /\ hubPc = "select"
    /\ nBroadcasts < MaxBroadcasts
    /\ nBroadcasts' = nBroadcasts + 1
    /\ hubMsg' = BroadcastMsg(Payload)
    /\ hubPc' = "bcastRLock"
    /\ UNCHANGED <<clients, mutexW, mutexR, hubClient, hubTodo,
                   countVars, chanVars, authVars, readVars, wp, logVars, wireVars, dbVars, now, fault>>

\* manager.mutex.RLock(), then the range loop starts over the map's keys
HubBcastRLock ==
    /\ fault = "none"
    /\ hubPc = "bcastRLock"
    /\ ~mutexW
    /\ mutexR' = mutexR + 1
    /\ hubTodo' = clients
    /\ hubPc' = "bcastLoop"
    /\ UNCHANGED <<clients, mutexW, hubClient, hubMsg, nBroadcasts,
                   countVars, chanVars, authVars, readVars, wp, logVars, wireVars, dbVars, now, fault>>

\* a loop that takes the send case without sending
BcastSendNothing(q, m) == q

\* case client.send <- message
BcastSend(q, m) == Append(q, m)

\* an eviction that closes the queue and leaves the session in the map
BcastEvictKeeps(cs, c) == cs

\* default: delete(manager.clients, client)
BcastEvict(cs, c) == cs \ {c}

\* one iteration of the range loop: select { case client.send <- message: default: ... }
HubBcastStep(c) ==
    /\ fault = "none"
    /\ hubPc = "bcastLoop"
    /\ c \in hubTodo
    /\ hubTodo' = hubTodo \ {c}
    /\ IF sendClosed[c]
       THEN /\ fault' = "send on closed channel"
            /\ UNCHANGED <<send, sendClosed, clients, disconnects, queued>>
       ELSE IF ~Full(c)
       THEN /\ send' = [send EXCEPT ![c] = BcastSend(@, hubMsg)]
            /\ Enqueued(c, hubMsg)
            /\ UNCHANGED <<sendClosed, clients, disconnects, fault>>
       ELSE /\ sendClosed' = [sendClosed EXCEPT ![c] = TRUE]
            /\ clients' = BcastEvict(clients, c)
            /\ disconnects' = [disconnects EXCEPT ![c] = "Client forcibly disconnected"]
            /\ UNCHANGED <<send, fault, queued>>
    /\ UNCHANGED <<mutexW, mutexR, hubPc, hubClient, hubMsg, nBroadcasts, warnings, wire,
                   countVars, authVars, readVars, wp, dbVars, now>>

\* the loop is over: manager.mutex.RUnlock()
HubBcastRUnlock ==
    /\ fault = "none"
    /\ hubPc = "bcastLoop"
    /\ hubTodo = {}
    /\ mutexR' = mutexR - 1
    /\ hubPc' = "select"
    /\ hubMsg' = NoMsg
    /\ UNCHANGED <<clients, mutexW, hubClient, hubTodo, nBroadcasts,
                   countVars, chanVars, authVars, readVars, wp, logVars, wireVars, dbVars, now, fault>>

----------------------------------------------------------------------------
(* GetConnectedClientsCount *)

\* manager.mutex.RLock()
CountRLock(r) ==
    /\ fault = "none"
    /\ countPc[r] = "idle"
    /\ ~mutexW
    /\ mutexR' = mutexR + 1
    /\ countPc' = [countPc EXCEPT ![r] = "locked"]
    /\ UNCHANGED <<clients, mutexW, hubPc, hubClient, hubMsg, hubTodo, nBroadcasts,
                   chanVars, authVars, readVars, wp, logVars, wireVars, dbVars, now, fault>>

\* return len(manager.clients), with the deferred manager.mutex.RUnlock()
CountReturn(r) ==
    /\ fault = "none"
    /\ countPc[r] = "locked"
    /\ mutexR' = mutexR - 1
    /\ countPc' = [countPc EXCEPT ![r] = "idle"]
    /\ UNCHANGED <<clients, mutexW, hubPc, hubClient, hubMsg, hubTodo, nBroadcasts,
                   chanVars, authVars, readVars, wp, logVars, wireVars, dbVars, now, fault>>

----------------------------------------------------------------------------
(* writePump *)

\* message, ok := <-c.send with ok = true, then c.conn.WriteMessage, which
\* returns an error or not
WriteMessage(c, writeOk) ==
    /\ fault = "none"
    /\ wp[c] = "run"
    /\ send[c] # <<>>
    /\ send' = [send EXCEPT ![c] = Recv(@).rest]
    /\ IF writeOk THEN Written(c, Recv(send[c]).message) ELSE UNCHANGED wire
    /\ wp' = [wp EXCEPT ![c] = IF writeOk THEN "run" ELSE "done"]
    /\ UNCHANGED <<hubVars, countVars, sendClosed, authVars, readVars, logVars, queued, dbVars, now, fault>>

\* ok = false: the channel is closed and drained; the close frame is written
WriteClose(c) ==
    /\ fault = "none"
    /\ wp[c] = "run"
    /\ send[c] = <<>>
    /\ sendClosed[c]
    /\ Written(c, CloseFrame)
    /\ wp' = [wp EXCEPT ![c] = "done"]
    /\ UNCHANGED <<hubVars, countVars, chanVars, authVars, readVars, logVars, queued, dbVars, now, fault>>

----------------------------------------------------------------------------
(* The database: the users and auth_tokens tables of SetupDatabase and the *)
(* statements the handlers run against them.  created_at, last_login,      *)
(* last_used_at and is_revoked are written but never read by the program   *)
(* and are left out.                                                        *)

\* bcrypt.GenerateFromPassword / CompareHashAndPassword
Hash(p) == <<"bcrypt", p>>

\* SELECT EXISTS(SELECT 1 FROM users WHERE username = $1)
UserExists(u) == \E r \in users : r.username = u

\* SELECT EXISTS(SELECT 1 FROM users WHERE email = $1)
EmailExists(e) == \E r \in users : r.email = e

\* username VARCHAR(50) UNIQUE NOT NULL, email VARCHAR(255) UNIQUE: the
\* insert stores the Go string, so an absent email is stored as '' (not
\* NULL) and takes part in the unique constraint.
UsersUniqueOk(u, e) ==
    /\ \A r \in users : r.username # u
    /\ \A r \in users : r.email # e

\* INSERT INTO users (username, password_hash, email) VALUES ($1, $2, $3)
InsertUser(u, h, e) ==
    users \cup {[id |-> userSeq + 1, username |-> u, password_hash |-> h, email |-> e]}

\* SELECT id FROM users WHERE username = $1
UserIDs(u) == {r.id : r \in {x \in users : x.username = u}}

\* INSERT INTO auth_tokens (user_id, token, ip_address, created_at, expires_at)
\* VALUES ($1, $2, $3, NOW(), NOW() + INTERVAL '7 days')
InsertToken(uid, tok, ip) ==
    tokens \cup {[id |-> tokenSeq + 1, user_id |-> uid, token |-> tok,
                  ip_address |-> ip, expires_at |-> now + TokenTTLDays]}

\* SELECT t.id, u.username, t.ip_address FROM auth_tokens t
\* JOIN users u ON t.user_id = u.id WHERE t.token = $1 AND t.expires_at > NOW()
TokenRows(tok) ==
    {[id |-> t.id, username |-> u.username, ip_address |-> t.ip_address] :
        <<t, u>> \in {p \in tokens \X users :
                        /\ p[1].user_id = p[2].id
                        /\ p[1].token = tok
                        /\ p[1].expires_at > now}}

\* UPDATE auth_tokens SET last_used_at = NOW(), ip_address = $1 WHERE id = $2
TouchToken(tid, ip) ==
    {IF t.id = tid THEN [t EXCEPT !.ip_address = ip] ELSE t : t \in tokens}

----------------------------------------------------------------------------
(* time.Now() / NOW(): the clock, in days *)

Tick ==
    /\ fault = "none"
    /\ now < MaxTime
    /\ now' = now + 1
    /\ UNCHANGED <<hubVars, countVars, chanVars, authVars, readVars, wp, logVars, wireVars, dbVars, fault>>

----------------------------------------------------------------------------
(* readPump: c.conn.ReadMessage() and handlePacket.  A handler runs up to  *)
(* its first database call in the step that reads the frame; each further  *)
(* database call is a step of its own; the response is sent in a last step *)
(* (a blocking send on Client.send).                                        *)

\* c.conn.ReadMessage() returns an error: the loop ends and the deferred
\* function runs
ReadError(c) ==
    /\ fault = "none"
    /\ rp[c] = "read"
    /\ rp' = [rp EXCEPT ![c] = "unregister"]
    /\ UNCHANGED <<hubVars, countVars, chanVars, authVars, msg, reply, regUserID, err,
                   regToken, nFrames, wp, logVars, wireVars, dbVars, now, fault>>

\* the frame is read and becomes handlePacket's message
Read(c, f) ==
    /\ fault = "none"
    /\ rp[c] = "read"
    /\ nFrames < MaxFrames
    /\ nFrames' = nFrames + 1
    /\ msg' = [msg EXCEPT ![c] = f]

\* err := ... of a database call: TRUE stands for a non-nil error
SetErr(c, failed) == err' = [err EXCEPT ![c] = failed]

\* a handler ends with client.send <- responseJSON
Respond(c, m) ==
    /\ reply' = [reply EXCEPT ![c] = m]
    /\ rp' = [rp EXCEPT ![c] = "send"]

\* the handler goes on to its next database call
Goto(c, label) ==
    /\ rp' = [rp EXCEPT ![c] = label]
    /\ UNCHANGED reply

\* an error path that also drops the session's authentication
sendErrorLogsOut(c, category, message) ==
    /\ Respond(c, ErrorMsg(category, message))
    /\ authenticated' = [authenticated EXCEPT ![c] = FALSE]
    /\ UNCHANGED <<username, authToken>>

\* sendError and sendAuthError touch nothing of the Client but its channel
sendError(c, category, message) ==
    /\ Respond(c, ErrorMsg(category, message))
    /\ UNCHANGED authVars

sendAuthError(c, message) ==
    /\ Respond(c, ErrorMsg("auth_error", message))
    /\ UNCHANGED authVars

sendRegistrationSuccess(c, autoLogin, u, tok) ==
    Respond(c, RegisterSuccessMsg(autoLogin, u, tok))

completeAuthentication(c, u, tok) ==
    /\ authenticated' = [authenticated EXCEPT ![c] = TRUE]
    /\ username' = [username EXCEPT ![c] = u]
    /\ authToken' = [authToken EXCEPT ![c] = tok]
    /\ Respond(c, AuthSuccessMsg(u, tok))

\* the switch on message.Type has no case for the frame: handlePacket
\* returns without a reply.  An error of json.Unmarshal is only logged; the
\* switch runs on whatever the call left in message.
HandleIgnored(c, f) ==
    /\ f.type \notin {"login", "register", "token_auth"}
    /\ Read(c, f)
    /\ UNCHANGED <<hubVars, countVars, chanVars, authVars, rp, reply, regUserID, err,
                   regToken, wp, logVars, wireVars, dbVars, now, fault>>

\* validateCredentials(username, password): the credential check and, on a
\* match, a new token stored with the client's address
CredentialsMatch(u, p) ==
    \E r \in users : r.username = u /\ r.password_hash = Hash(p)

\* a login handler that tells an unknown username from a wrong password
HandleLoginTelling(c, f, dbOk) ==
    /\ f.type = "login"
    /\ Read(c, f)
    /\ IF ~f.payloadOk
       THEN /\ sendError(c, "", "Invalid login format")
            /\ UNCHANGED <<tokens, tokenSeq, uuidSeq>>
       ELSE IF dbOk /\ CredentialsMatch(f.username, f.password)
       THEN /\ tokens' = InsertToken(CHOOSE i \in UserIDs(f.username) : TRUE,
                                     Uuid(uuidSeq + 1), ClientIP(c))
            /\ tokenSeq' = tokenSeq + 1
            /\ uuidSeq' = uuidSeq + 1
            /\ completeAuthentication(c, f.username, Uuid(uuidSeq + 1))
       ELSE /\ sendAuthError(c, IF dbOk /\ UserExists(f.username)
                                THEN "Invalid password"
                                ELSE "Invalid username or password")
            /\ UNCHANGED <<tokens, tokenSeq, uuidSeq>>
    /\ SetErr(c, f.payloadOk /\ ~dbOk)
    /\ UNCHANGED <<hubVars, countVars, chanVars, regUserID, regToken, wp,
                   users, userSeq, logVars, wireVars, now, fault>>

\* case "login": handleAuthentication
HandleLogin(c, f, dbOk) ==
    /\ f.type = "login"
    /\ Read(c, f)
    /\ IF ~f.payloadOk
       THEN /\ sendError(c, "", "Invalid login format")
            /\ UNCHANGED <<tokens, tokenSeq, uuidSeq>>
       ELSE IF dbOk /\ CredentialsMatch(f.username, f.password)
       THEN /\ tokens' = InsertToken(CHOOSE i \in UserIDs(f.username) : TRUE,
                                     Uuid(uuidSeq + 1), ClientIP(c))
            /\ tokenSeq' = tokenSeq + 1
            /\ uuidSeq' = uuidSeq + 1
            /\ completeAuthentication(c, f.username, Uuid(uuidSeq + 1))
       ELSE /\ sendAuthError(c, "Invalid username or password")
            /\ UNCHANGED <<tokens, tokenSeq, uuidSeq>>
    /\ SetErr(c, f.payloadOk /\ ~dbOk)
    /\ UNCHANGED <<hubVars, countVars, chanVars, regUserID, regToken, wp,
                   users, userSeq, logVars, wireVars, now, fault>>

\* case "token_auth" of handlePacket: var tokenAuth struct{ Token string } is
\* declared and never decoded from message.Payload, so tokenAuth.Token is
\* the zero value
TokenAuthToken(f) == NoToken

\* validateToken's warning: a previous address is stored and differs
NewIP(row, ip) == row.ip_address # "" /\ row.ip_address # ip

\* case "token_auth": validateToken(tokenAuth.Token, clientIP), then
\* sendError or completeAuthentication.  selectOk and touchOk tell whether
\* the SELECT and the UPDATE succeed.
HandleTokenAuth(c, f, selectOk, touchOk) ==
    /\ f.type = "token_auth"
    /\ Read(c, f)
    /\ LET tok  == TokenAuthToken(f)
           rows == TokenRows(tok)
       IN IF ~selectOk \/ rows = {}
          THEN /\ sendError(c, "token_error", "Invalid or expired token")
               /\ UNCHANGED <<tokens, warnings>>
          ELSE LET row == CHOOSE r \in rows : TRUE
               IN /\ warnings' = IF NewIP(row, ClientIP(c))
                                 THEN warnings \cup {<<tok, row.ip_address, ClientIP(c)>>}
                                 ELSE warnings
                  /\ tokens' = IF touchOk THEN TouchToken(row.id, ClientIP(c)) ELSE tokens
                  /\ completeAuthentication(c, row.username, tok)
    /\ SetErr(c, ~selectOk)
    /\ UNCHANGED <<hubVars, disconnects, wireVars, countVars, chanVars, regUserID, regToken, wp,
                   users, userSeq, tokenSeq, uuidSeq, now, fault>>

----------------------------------------------------------------------------
(* handleRegistration *)

ServerError(c) == sendError(c, "registration_error", "Registration failed due to a server error")

\* a validation that lets any email through
ValidationMessageAnyEmail(f) ==
    IF ~f.payloadOk THEN "Invalid registration format"
    ELSE IF Len(f.username) < MinUsernameLen THEN "Username must be at least 3 characters"
    ELSE IF Len(f.password) < MinPasswordLen THEN "Password must be at least 6 characters"
    ELSE ""

\* the checks made before the first query; "" when the input passes
ValidationMessage(f) ==
    IF ~f.payloadOk THEN "Invalid registration format"
    ELSE IF Len(f.username) < MinUsernameLen THEN "Username must be at least 3 characters"
    ELSE IF Len(f.password) < MinPasswordLen THEN "Password must be at least 6 characters"
    ELSE IF f.email # Empty /\ ~IsValidEmail(f.email) THEN "Invalid email format"
    ELSE ""

\* what handleRegistration does once the username query has returned
AfterUserExists(c, f, exists) ==
    IF exists THEN sendError(c, "registration_error", "Username already exists")
    ELSE IF f.email # Empty THEN Goto(c, "regEmailExists") /\ UNCHANGED authVars
    ELSE Goto(c, "regInsertUser") /\ UNCHANGED authVars

\* case "register": parsing, validation and the username query
HandleRegister(c, f, dbOk) ==
    /\ f.type = "register"
    /\ Read(c, f)
    /\ IF ValidationMessage(f) # ""
       THEN sendError(c, "registration_error", ValidationMessage(f))
       ELSE IF ~dbOk THEN ServerError(c)
       ELSE AfterUserExists(c, f, UserExists(f.username))
    /\ SetErr(c, ValidationMessage(f) = "" /\ ~dbOk)
    /\ UNCHANGED <<hubVars, countVars, chanVars, regUserID, regToken, wp,
                   logVars, wireVars, dbVars, now, fault>>

\* the email query
RegEmailExists(c, dbOk) ==
    /\ fault = "none"
    /\ rp[c] = "regEmailExists"
    /\ IF ~dbOk THEN ServerError(c)
       ELSE IF EmailExists(msg[c].email)
       THEN sendError(c, "registration_error", "Email already registered")
       ELSE Goto(c, "regInsertUser") /\ UNCHANGED authVars
    /\ SetErr(c, ~dbOk)
    /\ UNCHANGED <<hubVars, countVars, chanVars, msg, regUserID, regToken,
                   nFrames, wp, logVars, wireVars, dbVars, now, fault>>

\* bcrypt, the INSERT INTO users and, when it succeeded, uuid.New()
RegInsertUser(c, dbOk) ==
    /\ fault = "none"
    /\ rp[c] = "regInsertUser"
    /\ IF dbOk /\ UsersUniqueOk(msg[c].username, msg[c].email)
       THEN /\ users' = InsertUser(msg[c].username, Hash(msg[c].password), msg[c].email)
            /\ userSeq' = userSeq + 1
            /\ uuidSeq' = uuidSeq + 1
            /\ regToken' = [regToken EXCEPT ![c] = Uuid(uuidSeq + 1)]
            /\ Goto(c, "regGetUserID")
            /\ UNCHANGED authVars
       ELSE /\ ServerError(c)
            /\ UNCHANGED <<users, userSeq, uuidSeq, regToken>>
    /\ SetErr(c, ~(dbOk /\ UsersUniqueOk(msg[c].username, msg[c].email)))
    /\ UNCHANGED <<hubVars, countVars, chanVars, msg, regUserID,
                   nFrames, wp, tokens, tokenSeq, logVars, wireVars, now, fault>>

\* SELECT id FROM users WHERE username = $1
RegGetUserID(c, dbOk) ==
    /\ fault = "none"
    /\ rp[c] = "regGetUserID"
    /\ IF dbOk /\ UserIDs(msg[c].username) # {}
       THEN /\ regUserID' = [regUserID EXCEPT ![c] = CHOOSE i \in UserIDs(msg[c].username) : TRUE]
            /\ Goto(c, "regInsertToken")
            /\ UNCHANGED regToken
       ELSE /\ sendRegistrationSuccess(c, FALSE, Empty, NoToken)
            /\ regToken' = [regToken EXCEPT ![c] = NoToken]
            /\ UNCHANGED regUserID
    /\ SetErr(c, ~(dbOk /\ UserIDs(msg[c].username) # {}))
    /\ UNCHANGED <<hubVars, countVars, chanVars, authVars, msg,
                   nFrames, wp, logVars, wireVars, dbVars, now, fault>>

\* the INSERT INTO auth_tokens, then lines 524-529: the session is bound to
\* the user and the token
RegInsertToken(c, dbOk) ==
    /\ fault = "none"
    /\ rp[c] = "regInsertToken"
    /\ IF dbOk
       THEN /\ tokens' = InsertToken(regUserID[c], regToken[c], ClientIP(c))
            /\ tokenSeq' = tokenSeq + 1
            /\ username' = [username EXCEPT ![c] = msg[c].username]
            /\ authenticated' = [authenticated EXCEPT ![c] = TRUE]
            /\ authToken' = [authToken EXCEPT ![c] = regToken[c]]
            /\ sendRegistrationSuccess(c, TRUE, msg[c].username, regToken[c])
       ELSE /\ sendRegistrationSuccess(c, FALSE, Empty, NoToken)
            /\ UNCHANGED <<tokens, tokenSeq, authVars>>
    /\ SetErr(c, ~dbOk)
    /\ regUserID' = [regUserID EXCEPT ![c] = 0]
    /\ regToken' = [regToken EXCEPT ![c] = NoToken]
    /\ UNCHANGED <<hubVars, countVars, chanVars, msg, nFrames, wp,
                   users, userSeq, uuidSeq, logVars, wireVars, now, fault>>

----------------------------------------------------------------------------
(* client.send <- responseJSON in sendError, completeAuthentication and    *)
(* sendRegistrationSuccess: waits while the channel is full, panics when   *)
(* it is closed; then handlePacket returns and readPump reads again.       *)

SendReply(c) ==
    /\ fault = "none"
    /\ rp[c] = "send"
    /\ sendClosed[c] \/ ~Full(c)
    /\ IF sendClosed[c]
       THEN /\ fault' = "send on closed channel"
            /\ UNCHANGED <<send, rp, msg, reply, err, queued>>
       ELSE /\ send' = [send EXCEPT ![c] = Append(@, reply[c])]
            /\ Enqueued(c, reply[c])
            /\ SetErr(c, FALSE)
            /\ rp' = [rp EXCEPT ![c] = "read"]
            /\ msg' = [msg EXCEPT ![c] = NoFrame]
            /\ reply' = [reply EXCEPT ![c] = NoMsg]
            /\ UNCHANGED fault
    /\ UNCHANGED <<hubVars, countVars, sendClosed, authVars, regUserID, regToken,
                   nFrames, wp, logVars, wire, dbVars, now>>

----------------------------------------------------------------------------
(* The frames a peer sends *)

FrameTokens == {NoToken} \cup {t.token : t \in tokens}

LoginFrames ==
    {BadLoginFrame, LoginFrame(Alice, SecretPw), LoginFrame(Alice, ShortPw),
     LoginFrame(Ab, SecretPw)}

RegisterFrames ==
    {BadRegisterFrame, TypeErrorFrame,
     RegisterFrame(Ab, SecretPw, Empty), RegisterFrame(Alice, ShortPw, Empty),
     RegisterFrame(Alice, SecretPw, BadMail), RegisterFrame(Alice, SecretPw, Empty),
     RegisterFrame(Alice, SecretPw, GoodMail), RegisterFrame(Bob, SecretPw, Empty),
     RegisterFrame(Bob, SecretPw, GoodMail)}

TokenAuthFrames == {TokenAuthFrame(t) : t \in FrameTokens}

IgnoredFrames == {BadJsonFrame, OtherFrame}

Frames ==
    IgnoredFrames \cup LoginFrames \cup RegisterFrames \cup TokenAuthFrames

\* frames whose handling makes no database call: one that is ignored and
\* one that is answered with an error
LocalIgnoredFrames  == {BadJsonFrame}
LocalAnsweredFrames == {BadRegisterFrame}

----------------------------------------------------------------------------
(* The whole program *)

HubStep ==
    \/ HubRegLock
    \/ HubRegAdd
    \/ HubWelcome
    \/ HubUnregLock
    \/ HubUnregDel
    \/ HubBcastRLock
    \/ \E c \in Clients : HubBcastStep(c)
    \/ HubBcastRUnlock

RegistrationStep(c) ==
    \E ok \in BOOLEAN :
        \/ RegEmailExists(c, ok)
        \/ RegInsertUser(c, ok)
        \/ RegGetUserID(c, ok)
        \/ RegInsertToken(c, ok)

HandlePacket(c, f) ==
    \/ HandleIgnored(c, f)
    \/ \E ok \in BOOLEAN : HandleLogin(c, f, ok)
    \/ \E ok \in BOOLEAN : HandleRegister(c, f, ok)
    \/ \E ok1, ok2 \in BOOLEAN : HandleTokenAuth(c, f, ok1, ok2)

Next ==
    \/ \E c \in Clients : Connect(c)
    \/ HubStep
    \/ \E c \in Clients : Unregister(c)
    \/ BroadcastMessage
    \/ \E r \in Readers : CountRLock(r)
    \/ \E r \in Readers : CountReturn(r)
    \/ \E c \in Clients, ok \in BOOLEAN : WriteMessage(c, ok)
    \/ \E c \in Clients : WriteClose(c)
    \/ \E c \in Clients : ReadError(c)
    \/ \E c \in Clients, f \in Frames : HandlePacket(c, f)
    \/ \E c \in Clients : RegistrationStep(c)
    \/ \E c \in Clients : SendReply(c)
    \/ Tick

Spec == Init /\ [][Next]_vars

(* The hub and the pumps, with peers that send only frames handled without *)
(* the database and a clock that stands still                               *)

NextHub ==
    \/ \E c \in Clients : Connect(c)
    \/ HubRegLock
    \/ HubRegAdd
    \/ HubWelcome
    \/ \E c \in Clients : Unregister(c)
    \/ HubUnregLock
    \/ HubUnregDel
    \/ BroadcastMessage
    \/ HubBcastRLock
    \/ \E c \in Clients : HubBcastStep(c)
    \/ HubBcastRUnlock
    \/ \E r \in Readers : CountRLock(r)
    \/ \E r \in Readers : CountReturn(r)
    \/ \E c \in Clients, ok \in BOOLEAN : WriteMessage(c, ok)
    \/ \E c \in Clients : WriteClose(c)
    \/ \E c \in Clients : ReadError(c)
    \/ \E c \in Clients, f \in LocalIgnoredFrames : HandleIgnored(c, f)
    \/ \E c \in Clients, f \in LocalAnsweredFrames : HandleRegister(c, f, TRUE)
    \/ \E c \in Clients : SendReply(c)

SpecHub == Init /\ [][NextHub]_vars

(* Two connections, the authentication handlers and the database, with     *)
(* connections that stay open, a transport that accepts every write, no    *)
(* broadcast, a store whose calls all succeed in time and a clock that     *)
(* stands still                                                             *)

NextAuth ==
    \/ \E c \in Clients : Connect(c)
    \/ HubRegLock
    \/ HubRegAdd
    \/ HubWelcome
    \/ \E c \in Clients : WriteMessage(c, TRUE)
    \/ \E c \in Clients, f \in IgnoredFrames : HandleIgnored(c, f)
    \/ \E c \in Clients, f \in LoginFrames : HandleLogin(c, f, TRUE)
    \/ \E c \in Clients, f \in RegisterFrames : HandleRegister(c, f, TRUE)
    \/ \E c \in Clients, f \in TokenAuthFrames : HandleTokenAuth(c, f, TRUE, TRUE)
    \/ \E c \in Clients : RegEmailExists(c, TRUE)
    \/ \E c \in Clients : RegInsertUser(c, TRUE)
    \/ \E c \in Clients : RegGetUserID(c, TRUE)
    \/ \E c \in Clients : RegInsertToken(c, TRUE)
    \/ \E c \in Clients : SendReply(c)

SpecAuth == Init /\ [][NextAuth]_vars

(* One connection, its handlers and a store whose calls may fail *)

OneClient == "c1"

NextSession ==
    \/ Connect(OneClient)
    \/ HubRegLock
    \/ HubRegAdd
    \/ HubWelcome
    \/ WriteMessage(OneClient, TRUE)
    \/ \E f \in IgnoredFrames : HandleIgnored(OneClient, f)
    \/ \E f \in LoginFrames, ok \in BOOLEAN : HandleLogin(OneClient, f, ok)
    \/ \E f \in RegisterFrames, ok \in BOOLEAN : HandleRegister(OneClient, f, ok)
    \/ \E f \in TokenAuthFrames, ok1, ok2 \in BOOLEAN : HandleTokenAuth(OneClient, f, ok1, ok2)
    \/ \E ok \in BOOLEAN : RegEmailExists(OneClient, ok)
    \/ \E ok \in BOOLEAN : RegInsertUser(OneClient, ok)
    \/ \E ok \in BOOLEAN : RegGetUserID(OneClient, ok)
    \/ \E ok \in BOOLEAN : RegInsertToken(OneClient, ok)
    \/ SendReply(OneClient)

SpecSession == Init /\ [][NextSession]_vars

(* One connection, its handlers, a store whose calls all succeed, and a    *)
(* running clock                                                            *)

NextClock ==
    \/ Connect(OneClient)
    \/ HubRegLock
    \/ HubRegAdd
    \/ HubWelcome
    \/ WriteMessage(OneClient, TRUE)
    \/ \E f \in IgnoredFrames : HandleIgnored(OneClient, f)
    \/ \E f \in LoginFrames : HandleLogin(OneClient, f, TRUE)
    \/ \E f \in RegisterFrames : HandleRegister(OneClient, f, TRUE)
    \/ \E f \in TokenAuthFrames : HandleTokenAuth(OneClient, f, TRUE, TRUE)
    \/ RegEmailExists(OneClient, TRUE)
    \/ RegInsertUser(OneClient, TRUE)
    \/ RegGetUserID(OneClient, TRUE)
    \/ RegInsertToken(OneClient, TRUE)
    \/ SendReply(OneClient)
    \/ Tick

SpecClock == Init /\ [][NextClock]_vars

(* The life of one connection: the hub, the two pumps, broadcasts and a    *)
(* peer that sends frames handled without the database, under a scheduler  *)
(* that lets every goroutine run that can take a step.                     *)

\* c.conn.Close() was called: deferred by writePump, and by readPump once
\* the hub has taken its unregister request
ConnClosed(c) == wp[c] = "done" \/ rp[c] = "done"

NextLife ==
    \/ Connect(OneClient)
    \/ HubRegLock
    \/ HubRegAdd
    \/ HubWelcome
    \/ Unregister(OneClient)
    \/ HubUnregLock
    \/ HubUnregDel
    \/ BroadcastMessage
    \/ HubBcastRLock
    \/ HubBcastStep(OneClient)
    \/ HubBcastRUnlock
    \/ \E ok \in BOOLEAN : WriteMessage(OneClient, ok)
    \/ WriteClose(OneClient)
    \/ ReadError(OneClient)
    \/ \E f \in LocalIgnoredFrames : HandleIgnored(OneClient, f)
    \/ \E f \in LocalAnsweredFrames : HandleRegister(OneClient, f, TRUE)
    \/ SendReply(OneClient)

\* The hub goroutine and the pumps are scheduled whenever they can run; a
\* ReadMessage on a closed connection returns an error.  What the peer and
\* the callers of BroadcastMessage do is up to them.
FairLife ==
    /\ WF_vars(HubRegLock) /\ WF_vars(HubRegAdd) /\ WF_vars(HubWelcome)
    /\ WF_vars(Unregister(OneClient))
    /\ WF_vars(HubUnregLock) /\ WF_vars(HubUnregDel)
    /\ WF_vars(HubBcastRLock) /\ WF_vars(HubBcastStep(OneClient))
    /\ WF_vars(HubBcastRUnlock)
    /\ WF_vars(\E ok \in BOOLEAN : WriteMessage(OneClient, ok))
    /\ WF_vars(WriteClose(OneClient))
    /\ WF_vars(SendReply(OneClient))
    /\ WF_vars(ConnClosed(OneClient) /\ ReadError(OneClient))

SpecLife == Init /\ [][NextLife]_vars /\ FairLife

(* The connection Traced alone, with the hub, its pumps, broadcasts and a  *)
(* peer that sends frames handled without the database                      *)

NextFifo ==
    \/ Connect(Traced)
    \/ HubRegLock
    \/ HubRegAdd
    \/ HubWelcome
    \/ Unregister(Traced)
    \/ HubUnregLock
    \/ HubUnregDel
    \/ BroadcastMessage
    \/ HubBcastRLock
    \/ HubBcastStep(Traced)
    \/ HubBcastRUnlock
    \/ \E ok \in BOOLEAN : WriteMessage(Traced, ok)
    \/ WriteClose(Traced)
    \/ ReadError(Traced)
    \/ \E f \in LocalIgnoredFrames : HandleIgnored(Traced, f)
    \/ \E f \in LocalAnsweredFrames : HandleRegister(Traced, f, TRUE)
    \/ SendReply(Traced)

SpecFifo == Init /\ [][NextFifo]_vars

----------------------------------------------------------------------------
(* Steps of the hub and of the handlers, as seen from a pair of states *)

\* the hub takes c's unregister request
UnregisterTaken(c) == rp[c] = "unregister" /\ rp'[c] = "done"

\* the broadcast loop visits c
BcastVisits(c) == hubPc = "bcastLoop" /\ c \in hubTodo /\ c \notin hubTodo'

\* handlePacket starts on a token_auth frame of c
TokenAuthHandled(c) == rp[c] = "read" /\ rp'[c] = "send" /\ msg'[c].type = "token_auth"

\* the auth_tokens rows holding token tok
StoredTokens(tok) == {t \in tokens : t.token = tok}

\* handlePacket starts on a register frame of c
RegisterHandled(c) == rp[c] = "read" /\ rp'[c] # "read" /\ msg'[c].type = "register"

\* handlePacket starts on a login frame of c whose payload decodes
LoginHandled(c) ==
    /\ rp[c] = "read" /\ rp'[c] = "send"
    /\ msg'[c].type = "login" /\ msg'[c].payloadOk

\* handleRegistration, past the insert of the user row, returns without
\* having stored a token
TokenCreationFailed(c) ==
    /\ rp[c] \in {"regGetUserID", "regInsertToken"}
    /\ rp'[c] = "send"
    /\ tokens' = tokens

\* handleRegistration of c runs its INSERT INTO users
UserInsertRun(c) == rp[c] = "regInsertUser" /\ rp'[c] # "regInsertUser"

\* readPump of c reads a frame and hands it to handlePacket
FrameRead(c) ==
    /\ rp[c] = "read"
    /\ nFrames' = nFrames + 1
    /\ msg'[c] # NoFrame
    /\ \A d \in Clients \ {c} : msg'[d] = msg[d]

\* a handler of c ends on a database call that returned an error
PersistenceFailed(c) == rp[c] # "send" /\ rp'[c] = "send" /\ err'[c]

\* the handler's blocking send of its response goes through
ReplySent(c) == rp[c] = "send" /\ rp'[c] = "read"

----------------------------------------------------------------------------
(* C1: in every interleaving of register, unregister and broadcast         *)
(* requests the hub never registers a session that is already in the       *)
(* registry, never closes a queue twice, and an unregister request for a   *)
(* session that is not in the registry is a no-op: the hub stays in its    *)
(* select, the registry and every queue's closed flag are unchanged, and   *)
(* nothing panics.                                                          *)
C1_UnregisterIdempotent ==
    /\ [](hubPc = "regAdd" => hubClient \notin clients)
    /\ [](fault # "close of closed channel")
    /\ [][\A c \in Clients :
            (UnregisterTaken(c) /\ c \notin clients) =>
                /\ hubPc' = "select"
                /\ clients' = clients
                /\ sendClosed' = sendClosed
                /\ send' = send
                /\ fault' = "none"]_vars

\* a session the broadcast evicted has had its own unregister request taken
\* by the hub, which is back in its select
C1_Witness ==
    \E c \in Clients :
        /\ disconnects[c] = "Client forcibly disconnected"
        /\ rp[c] = "done"
        /\ hubPc = "select"

(* C2: when the broadcast loop visits a session whose queue is full, that  *)
(* same step removes it from the registry and closes its queue; a closed   *)
(* queue belongs to no registered session, is never closed again (also     *)
(* when the session's own unregister arrives), stays closed, and nothing   *)
(* is enqueued on it any more.                                              *)
C2_EvictOnce ==
    /\ [](\A c \in Clients : sendClosed[c] => c \notin clients)
    /\ [](fault # "close of closed channel")
    /\ [][\A c \in Clients :
            /\ (BcastVisits(c) /\ Full(c) /\ ~sendClosed[c]) =>
                    (c \notin clients' /\ sendClosed'[c])
            /\ sendClosed[c] =>
                    (sendClosed'[c] /\ Len(send'[c]) <= Len(send[c]))]_vars

\* a later broadcast pass has delivered to another session while a session
\* evicted earlier, whose own unregister has been taken, stays out
C2_Witness ==
    \E c, d \in Clients :
        /\ disconnects[c] = "Client forcibly disconnected"
        /\ rp[c] = "done"
        /\ sendClosed[c] /\ c \notin clients
        /\ hubPc = "bcastLoop" /\ hubTodo = {}
        /\ d \in clients
        /\ send[d] # <<>> /\ send[d][Len(send[d])] = hubMsg

(* C3: a broadcast pass starts over exactly the registered sessions and    *)
(* ends only when it has visited them all; the step that visits a session  *)
(* finds it registered, appends the payload exactly once to its queue when *)
(* the queue is not full, and changes no other session's queue.            *)
C3_BroadcastDelivers ==
    /\ [](hubPc = "bcastLoop" => hubTodo \subseteq clients)
    /\ [][/\ (hubPc = "bcastRLock" /\ hubPc' = "bcastLoop") => hubTodo' = clients
          /\ (hubPc = "bcastLoop" /\ hubPc' = "select") => hubTodo = {}
          /\ \A c \in Clients :
                BcastVisits(c) =>
                    /\ c \in clients
                    /\ ~Full(c) => send'[c] = Append(send[c], hubMsg)
                    /\ \A d \in Clients \ {c} : send'[d] = send[d]]_vars

\* a pass is over in which one session got the payload and the other,
\* registered too, was visited as well
C3_Witness ==
    /\ hubPc = "bcastLoop" /\ hubTodo = {}
    /\ Cardinality(clients) = 2
    /\ \A c \in clients : send[c] = <<hubMsg>>

(* C4: the hub never waits on a session's outbound queue: it is never at   *)
(* a send (the welcome message) on a queue that is full and whose consumer *)
(* has stopped, where it could not finish the register request nor take    *)
(* any later request.                                                       *)
C4_HubNeverStuck ==
    ~(/\ hubPc = "welcome"
      /\ Full(hubClient)
      /\ ~sendClosed[hubClient]
      /\ wp[hubClient] = "done")

(* C5: the hub never adds to or deletes from the registry while a caller   *)
(* of connectedCount holds the read lock: every mutation of the registry   *)
(* is made under the exclusive lock.                                        *)
C5_MutationExcludesReaders ==
    [][clients' # clients => \A r \in Readers : countPc[r] # "locked"]_vars

(* C6: on one connection, whatever frames arrive and whether the handlers  *)
(* succeed or fail, the authenticated flag never goes from true to false.  *)
C6_AuthenticatedTerminal ==
    [][\A c \in Clients : authenticated[c] => authenticated'[c]]_vars

\* an authenticated session has just had a later request refused
C6_Witness ==
    \E c \in Clients :
        /\ authenticated[c]
        /\ rp[c] = "send"
        /\ reply[c].type = "error"

(* C7: when two sessions register the same unused username and the store   *)
(* works, one gets register_success and the other gets the "Username       *)
(* already exists" error, in every interleaving.                            *)
C7_LoserToldAlreadyExists ==
    \A c, d \in Clients :
        (/\ c # d
         /\ msg[c].type = "register" /\ msg[d].type = "register"
         /\ msg[c].username = msg[d].username
         /\ ValidationMessage(msg[d]) = ""
         /\ rp[c] = "send" /\ rp[d] = "send"
         /\ reply[c].type = "register_success")
        => reply[d] = ErrorMsg("registration_error", "Username already exists")

(* C8: a token_auth frame carrying the value of a stored token succeeds    *)
(* (the session becomes authenticated and auth_success is the reply)       *)
(* exactly when the clock is before the token's expiry.                     *)
C8_TokenValidIffUnexpired ==
    [][\A c \in Clients :
        (TokenAuthHandled(c) /\ StoredTokens(msg'[c].token) # {}) =>
            \A t \in StoredTokens(msg'[c].token) :
                (authenticated'[c] /\ reply'[c].type = "auth_success")
                    <=> (now < t.expires_at)]_vars

(* C9: a token T issued to user u by a successful register on one          *)
(* connection, whose reply has been sent, and then sent in token_auth on   *)
(* another connection, is answered with auth_success{u, T} and binds u and *)
(* T to that connection.                                                    *)
C9_IssuedTokenRoundTrip ==
    \A c, d \in Clients :
        (/\ c # d
         /\ authenticated[d] /\ authToken[d] # NoToken /\ rp[d] = "read"
         /\ rp[c] = "send" /\ msg[c].type = "token_auth"
         /\ msg[c].token = authToken[d])
        => /\ reply[c] = AuthSuccessMsg(username[d], authToken[d])
           /\ authenticated[c]
           /\ username[c] = username[d]
           /\ authToken[c] = authToken[d]

(* C10: token_auth with a stored token from an address other than the one  *)
(* stored with it is accepted: the session becomes authenticated, the      *)
(* reply is auth_success, a warning is logged and the stored address       *)
(* becomes the caller's.                                                    *)
C10_NewAddressAccepted ==
    [][\A c \in Clients :
        \A t \in StoredTokens(msg'[c].token) :
            (TokenAuthHandled(c) /\ t.ip_address # ClientIP(c)) =>
                /\ authenticated'[c]
                /\ reply'[c].type = "auth_success"
                /\ warnings' # warnings
                /\ \E t2 \in tokens' : t2.id = t.id /\ t2.ip_address = ClientIP(c)]_vars

C12_RegisteredWithoutLogin ==
    /\ [](\A c \in Clients :
            ~authenticated[c] => (username[c] = Empty /\ authToken[c] = NoToken))
    /\ [][\A c \in Clients :
            TokenCreationFailed(c) =>
                /\ reply'[c].type = "register_success"
                /\ reply'[c].success
                /\ ~reply'[c].autoLogin
                /\ reply'[c].username = Empty
                /\ reply'[c].token = NoToken
                /\ users' = users
                /\ \E r \in users' : r.username = msg[c].username
                /\ authenticated'[c] = authenticated[c]
                /\ username'[c] = username[c]
                /\ authToken'[c] = authToken[c]]_vars

\* an unauthenticated session is about to be told that its registration
\* succeeded without a login: its user is stored and no token is
C12_Witness ==
    \E c \in Clients :
        /\ rp[c] = "send"
        /\ reply[c].type = "register_success" /\ ~reply[c].autoLogin
        /\ ~authenticated[c] /\ username[c] = Empty /\ authToken[c] = NoToken
        /\ UserExists(msg[c].username)
        /\ tokens = {}

(* C13: a login that names no stored user, or a stored user with another  *)
(* password, is refused, and every refused login (those two and a failed   *)
(* lookup) gets one and the same reply, the error "Invalid username or     *)
(* password", and leaves the store and the session's authentication state  *)
(* as they were: an unauthenticated session stays unauthenticated.         *)
C13_LoginFailureGeneric ==
    [][\A c \in Clients :
        LoginHandled(c) =>
            /\ (~\E r \in users : /\ r.username = msg'[c].username
                                  /\ r.password_hash = Hash(msg'[c].password))
                    => reply'[c].type # "auth_success"
            /\ reply'[c].type # "auth_success" =>
                    /\ reply'[c] = ErrorMsg("auth_error", "Invalid username or password")
                    /\ users' = users /\ tokens' = tokens
                    /\ authenticated'[c] = authenticated[c]
                    /\ username'[c] = username[c]
                    /\ authToken'[c] = authToken[c]]_vars

\* a login with the wrong password for a stored user is being refused with
\* the generic error, on a session that is not authenticated
C13_Witness ==
    \E c \in Clients :
        /\ rp[c] = "send" /\ msg[c].type = "login"
        /\ UserExists(msg[c].username)
        /\ ~CredentialsMatch(msg[c].username, msg[c].password)
        /\ reply[c] = ErrorMsg("auth_error", "Invalid username or password")
        /\ ~authenticated[c]

(* C14: when a database call of the login, register or token_auth handler *)
(* fails (the calls made once the user row is inserted, whose failure is   *)
(* answered with register_success, set aside), the handler ends at once    *)
(* with an error reply that is a server error, not the reply a wrong       *)
(* password or an invalid token gets; it writes nothing to the store and   *)
(* leaves the session's authentication state as it was.                    *)
C14_PersistenceFailureOpaque ==
    [][\A c \in Clients :
        (PersistenceFailed(c) /\ ~TokenCreationFailed(c)) =>
            /\ reply'[c].type = "error"
            /\ reply'[c].message \notin {"Invalid username or password",
                                         "Invalid or expired token"}
            /\ users' = users /\ tokens' = tokens
            /\ authenticated'[c] = authenticated[c]
            /\ username'[c] = username[c]
            /\ authToken'[c] = authToken[c]]_vars

(* C15: reading a frame that json.Unmarshal rejects, or a frame whose type *)
(* is none of login, register and token_auth, changes nothing: no handler  *)
(* is entered and no reply prepared (the loop is back at its read),        *)
(* nothing is placed on the session's queue, and the store and the         *)
(* session's authentication state are as before.                           *)
C15_IgnoredFrameNoEffect ==
    [][\A c \in Clients :
        (/\ FrameRead(c)
         /\ \/ msg'[c].json = "bad"
            \/ msg'[c].type \notin {"login", "register", "token_auth"})
        => /\ rp'[c] = "read"
           /\ reply'[c] = reply[c]
           /\ send'[c] = send[c]
           /\ users' = users /\ tokens' = tokens
           /\ authenticated'[c] = authenticated[c]
           /\ username'[c] = username[c]
           /\ authToken'[c] = authToken[c]]_vars

(* C16: under fair scheduling of the hub and the pumps, whenever a         *)
(* session's inbound loop has ended on a read error, eventually the        *)
(* session is out of the registry, its queue is closed and its outbound    *)
(* loop has terminated; and a session whose queue is closed is never       *)
(* added to the registry again.                                             *)
C16_ReadErrorCleansUp ==
    /\ \A c \in Clients :
            (rp[c] = "unregister")
                ~> (c \notin clients /\ sendClosed[c] /\ wp[c] = "done")
    /\ [][\A c \in Clients : sendClosed[c] => c \notin clients']_vars

(* C17: under fair scheduling, whenever the outbound loop of a registered *)
(* session that has been sent its welcome has terminated on a failed write *)
(* (the queue not being closed), eventually the inbound loop has sent its  *)
(* unregister request to the hub and the session is out of the registry    *)
(* with its queue closed.                                                   *)
C17_WriteErrorCleansUp ==
    \A c \in Clients :
        (wp[c] = "done" /\ ~sendClosed[c] /\ c \in clients /\ hubPc # "welcome")
            ~> (rp[c] = "done" /\ c \notin clients /\ sendClosed[c])

(* C18: for the traced session, as long as its outbound loop has not      *)
(* terminated, the messages placed on its queue (welcome, broadcasts,      *)
(* replies) are, in the order of their placement, those written to the     *)
(* transport followed by those still queued: none is lost, duplicated or   *)
(* reordered, also once the queue is closed.  What has been written is     *)
(* always a prefix of what was placed, and a close frame is written only   *)
(* after every message placed on the queue.                                 *)
C18_QueueFifo ==
    /\ wp[Traced] # "done" => queued = wire \o send[Traced]
    /\ \/ \E n \in 0..Len(queued) : wire = SubSeq(queued, 1, n)
       \/ wire = queued \o <<CloseFrame>>

\* the session was evicted by a broadcast with its queue full of two
\* different messages, and its outbound loop has since written every
\* message and then the close frame
C18_Witness ==
    /\ disconnects[Traced] = "Client forcibly disconnected"
    /\ Len(queued) >= 3
    /\ queued[Len(queued)] # queued[Len(queued) - 1]
    /\ wire = queued \o <<CloseFrame>>
    /\ wp[Traced] = "done"

(* C19: no goroutine ever sends on a session's queue after the queue has  *)
(* been closed: in particular the inbound loop of a session that a         *)
(* broadcast has evicted never sends a reply on the closed queue, which    *)
(* would end the process with the panic "send on closed channel".          *)
C19_NoSendOnClosedQueue ==
    fault # "send on closed channel"

(* C20: with a store whose calls succeed, the insert of a registration    *)
(* that gives no email and a username no stored user has, succeeds: the    *)
(* user row is stored and the handler goes on to create the token,         *)
(* however many users without email the store already holds.               *)
C20_EmailOptional ==
    [][\A c \in Clients :
        (/\ UserInsertRun(c)
         /\ msg[c].email = Empty
         /\ ~\E r \in users : r.username = msg[c].username)
        => /\ \E r \in users' : r.username = msg[c].username
           /\ rp'[c] = "regGetUserID"]_vars

(* C21: once a session is authenticated, the username and the token bound *)
(* to it never change: no later login, register or token_auth on the       *)
(* connection binds it to another username or token.                        *)
C21_BindingStable ==
    [][\A c \in Clients :
        authenticated[c] =>
            /\ username'[c] = username[c]
            /\ authToken'[c] = authToken[c]]_vars

(* C22: the welcome message is the first message placed on the traced     *)
(* session's queue, ahead of every reply and every broadcast payload, and  *)
(* it is placed there at most once.                                         *)
C22_WelcomeFirst ==
    /\ queued # <<>> => queued[1] = WelcomeMsg
    /\ Cardinality({i \in 1..Len(queued) : queued[i] = WelcomeMsg}) <= 1

====
